---- MODULE Spec2Model ----
(***************************************************************************)
(* The refrigeration dashboard's telemetry simulator: the React component  *)
(* RefrigerationDashboard with its state hooks, its bootstrap effect, its  *)
(* tick effect (a 5 s interval, re-created whenever isPaused,              *)
(* currentValues or binaryStates change) and the pause and language        *)
(* controls.                                                               *)
(*                                                                         *)
(* Numbers.  Channel values are JavaScript doubles; here they are          *)
(* fixed-point integers in thousandths (35 degrees = 35000), and a         *)
(* result of Math.random() is an integer number of thousandths in 0..999.  *)
(* Products that leave the grid are floored to it.  Time is in seconds.    *)
(*                                                                         *)
(* Randomness.  Every Math.random() call is an input.  The calls of one    *)
(* handler are gathered in a record (a "source"): the defrost draw, the    *)
(* door draw and, per channel, the first and second draw of                *)
(* generateValue.  The sets of sources the actions choose from are bounds  *)
(* of the model.                                                           *)
(*                                                                         *)
(* The "time" field of a data point (timestamp.toLocaleTimeString()) is a  *)
(* display string derived from the timestamp and is left out.              *)
(***************************************************************************)
EXTENDS Integers, Sequences, FiniteSets, TLC

VARIABLES
  phase,          \* "rendered": hooks initialised, effects not yet run;
                  \* "mounted"; "unmounted"
  data,           \* useState([]): the history shown in the chart
  binaryStates,   \* useState({...}): the six equipment flags
  currentValues,  \* useState({...}): the six current channel values
  isPaused,       \* useState(false)
  language,       \* useState('en')
  intervals,      \* the browser's armed interval timers
  cleanup,        \* the tick effect's pending cleanup: the interval it clears
  clock,          \* Date.now(), in seconds since the page was loaded
  ticks,          \* history variable: interval callbacks run so far
  lastResume,     \* history variable: clock of the latest mount or resume
  lastPause,      \* history variable: clock of the latest pause
  resumeTicks     \* history variable: ticks at the latest mount or resume

vars == <<phase, data, binaryStates, currentValues, isPaused, language,
          intervals, cleanup, clock, ticks, lastResume, lastPause, resumeTicks>>

----------------------------------------------------------------------------
(* Bounds of the model. *)

\* Spec: the clock stops here (two interval periods and a bit).
MaxTime == 12
\* SpecRun: the clock stops here (five interval periods).
RunTime == 27
\* SpecLong: the clock stops here (sixty-two interval periods).
LongTime == 312
\* SpecLong: the pause switch is used only before this time.
LongWindow == 8
\* SpecLive: the clock stops here (two interval periods and a bit).
LiveTime == 12

\* Results of Math.random(), in thousandths.
TriggerDraws == {20, 200, 600}
DoorDraws == {50, 600}
ValueDraws == {0, 999}
RunValueDraws == {0, 500, 999}

----------------------------------------------------------------------------
(* Program constants. *)

Channels == {"caseTemp", "suctionTemp", "dischargeTemp", "evaporatorTemp",
             "txValvePosition", "txValveSuperheat"}

\* Fixed point: one unit of a channel is this many thousandths.
Scale == 10 * 10 * 10

SIMULATION_CONFIG ==
  [caseTemp         |-> [baseline |-> 35,  variance |-> 2,  min |-> 32,  max |-> 40],
   suctionTemp      |-> [baseline |-> 20,  variance |-> 3,  min |-> 15,  max |-> 25],
   dischargeTemp    |-> [baseline |-> 140, variance |-> 5,  min |-> 130, max |-> 155],
   evaporatorTemp   |-> [baseline |-> 28,  variance |-> 2,  min |-> 25,  max |-> 35],
   txValvePosition  |-> [baseline |-> 45,  variance |-> 10, min |-> 20,  max |-> 70],
   txValveSuperheat |-> [baseline |-> 8,   variance |-> 2,  min |-> 4,   max |-> 15]]

\* setInterval(..., 5000): the period, in seconds.
Period == 5
\* updated.slice(-60)
HistoryCap == 60
\* for (let i = 60; i > 0; i--)
BootstrapCount == 60
\* new Date(now - i * 5000): the spacing of the bootstrap samples, in seconds.
BootstrapStep == 5
\* Math.random() < 0.05, < 0.3, < 0.1 (thousandths).
StartThreshold == 50
EndThreshold == 300
DoorThreshold == 100
\* currentValues.caseTemp > 38
AlarmThreshold == 38

Min2(a, b) == IF a < b THEN a ELSE b
Max2(a, b) == IF a > b THEN a ELSE b

----------------------------------------------------------------------------
(* generateValue(config, previousValue, inDefrost); r1 and r2 are the      *)
(* results of its first and second Math.random() call.                     *)

defrostMultiplier(config) == IF config.baseline < 50 THEN 15 ELSE 11

\* Mutant of generateValue: the normal branch without the * 0.5 on the noise.
generateValue_FullNoise(config, previousValue, inDefrost, r1, r2) ==
  IF inDefrost
  THEN Min2(config.max * Scale,
            previousValue
              + ((r1 - 300) * config.variance * defrostMultiplier(config)) \div 10)
  ELSE LET target == config.baseline * Scale + (r1 - 500) * config.variance
           change == ((target - previousValue) * 3
                        + (r2 - 500) * config.variance * 10) \div 10
       IN  Max2(config.min * Scale,
                Min2(config.max * Scale, previousValue + change))

\* Mutant of generateValue: the defrost branch without Math.min(config.max, ...).
generateValue_NoCeiling(config, previousValue, inDefrost, r1, r2) ==
  IF inDefrost
  THEN previousValue
         + ((r1 - 300) * config.variance * defrostMultiplier(config)) \div 10
  ELSE LET target == config.baseline * Scale + (r1 - 500) * config.variance
           change == ((target - previousValue) * 3
                        + (r2 - 500) * config.variance * 5) \div 10
       IN  Max2(config.min * Scale,
                Min2(config.max * Scale, previousValue + change))

generateValue(config, previousValue, inDefrost, r1, r2) ==
  IF inDefrost
  THEN Min2(config.max * Scale,
            previousValue
              + ((r1 - 300) * config.variance * defrostMultiplier(config)) \div 10)
  ELSE LET target == config.baseline * Scale + (r1 - 500) * config.variance
           change == ((target - previousValue) * 3
                        + (r2 - 500) * config.variance * 5) \div 10
       IN  Max2(config.min * Scale,
                Min2(config.max * Scale, previousValue + change))

----------------------------------------------------------------------------
(* Random sources. *)

\* One handler's Math.random() results: d for the defrost draw, e for the
\* door draw, a and b for generateValue's first and second call (every
\* channel gets the same pair).
Source(d, e, a, b) ==
  [defrost |-> d, door |-> e,
   first |-> [c \in Channels |-> a], second |-> [c \in Channels |-> b]]

TickSources ==
  {Source(d, e, a, b) : d \in TriggerDraws, e \in DoorDraws,
                        a \in ValueDraws, b \in ValueDraws}
RunSources == {Source(d, d, a, a) : d \in TriggerDraws, a \in RunValueDraws}
LongSources == {Source(600, 600, 500, 500)}

\* The bootstrap loop's draws: sample k (1 = oldest) of channel c gets r when
\* k is odd and s when k is even.
BootSource(r, s) ==
  [k \in 1..BootstrapCount |-> [c \in Channels |-> IF k % 2 = 1 THEN r ELSE s]]

BootSources == {BootSource(r, r) : r \in ValueDraws}
RunBootSources == {BootSource(0, 999), BootSource(500, 500)}
LongBootSources == {BootSource(0, 999)}

\* The sources of the fair run: a tick that starts or ends a defrost, one
\* that leaves the flag as it is.
LiveSources == {Source(20, 600, 500, 500), Source(600, 600, 500, 500)}

LiveBootSources == {BootSource(500, 500)}

----------------------------------------------------------------------------
(* The component's state hooks. *)

initialBinaryStates ==
  [defrostMode |-> FALSE, compressorRunning |-> TRUE, evaporatorFan |-> TRUE,
   caseLight |-> TRUE, doorSwitch |-> FALSE, alarmStatus |-> FALSE]

initialCurrentValues ==
  [caseTemp |-> 35 * Scale, suctionTemp |-> 20 * Scale,
   dischargeTemp |-> 140 * Scale, evaporatorTemp |-> 28 * Scale,
   txValvePosition |-> 45 * Scale, txValveSuperheat |-> 8 * Scale]

Init ==
  /\ phase = "rendered"
  /\ data = << >>
  /\ binaryStates = initialBinaryStates
  /\ currentValues = initialCurrentValues
  /\ isPaused = FALSE
  /\ language = "en"
  /\ intervals = {}
  /\ cleanup = {}
  /\ clock = 0
  /\ ticks = 0
  /\ lastResume = 0
  /\ lastPause = 0
  /\ resumeTicks = 0

----------------------------------------------------------------------------
(* The bootstrap effect. *)

\* The literals of the bootstrap loop: centre and width of each channel.
bootstrapCentre ==
  [caseTemp |-> 35, suctionTemp |-> 20, dischargeTemp |-> 140,
   evaporatorTemp |-> 28, txValvePosition |-> 45, txValveSuperheat |-> 8]

\* Mutant of bootstrapWidth: the jitter spans the channel's whole range.
bootstrapWidth_Range ==
  [c \in Channels |-> SIMULATION_CONFIG[c].max - SIMULATION_CONFIG[c].min]

bootstrapWidth ==
  [caseTemp |-> 2, suctionTemp |-> 2, dischargeTemp |-> 5,
   evaporatorTemp |-> 2, txValvePosition |-> 10, txValveSuperheat |-> 2]

\* The k-th sample pushed (k = 1 for i = 60, k = 60 for i = 1).
initialData(now, rnd) ==
  [k \in 1..BootstrapCount |->
     LET i == BootstrapCount + 1 - k
     IN  [timestamp |-> now - i * BootstrapStep]
           @@ [c \in Channels |->
                 bootstrapCentre[c] * Scale + (rnd[k][c] - 500) * bootstrapWidth[c]]]

----------------------------------------------------------------------------
(* The tick effect: timers. *)

\* Mutant of setInterval: the first firing is immediate.
setInterval_FiresAtOnce(values, binary, now) ==
  [id |-> now, due |-> now, values |-> values, binary |-> binary]

\* Mutant of setInterval: the timer keeps the phase of the page's clock and
\* fires at the next multiple of the period.
setInterval_KeepsPhase(values, binary, now) ==
  [id |-> now, due |-> now + Period - (now % Period),
   values |-> values, binary |-> binary]

\* setInterval(callback, 5000) at time now: the timer, with the state the
\* callback's closure captured.  A timer is identified by its creation time.
setInterval(values, binary, now) ==
  [id |-> now, due |-> now + Period, values |-> values, binary |-> binary]

\* Mutant of clearInterval: the timer is left armed.
clearInterval_Nothing(ivs, ids) == ivs

\* clearInterval, for the timers a cleanup holds.
clearInterval(ivs, ids) == {iv \in ivs : iv.id \notin ids}

\* Mutant of TickDeps: the dependency array [isPaused].
TickDeps_PauseOnly == {"isPaused"}

\* Mutant of TickDeps: language is a dependency too.
TickDeps_WithLanguage == {"isPaused", "currentValues", "binaryStates", "language"}

\* The effect's dependency array.
TickDeps == {"isPaused", "currentValues", "binaryStates"}

\* Mutant of tickEffect: the effect does not look at isPaused.
tickEffect_IgnoresPause(set, ivs, cl, paused, values, binary, now) ==
  IF set \cap TickDeps = {}
  THEN [intervals |-> ivs, cleanup |-> cl]
  ELSE [intervals |-> clearInterval(ivs, cl)
                        \cup {setInterval(values, binary, now)},
        cleanup |-> {now}]

\* Mutant of tickEffect: a run of the effect that isPaused did not cause
\* only cleans up and arms no timer.
tickEffect_CleanupOnly(set, ivs, cl, paused, values, binary, now) ==
  IF set \cap TickDeps = {}
  THEN [intervals |-> ivs, cleanup |-> cl]
  ELSE LET cleared == clearInterval(ivs, cl)
       IN  IF paused \/ "isPaused" \notin set
           THEN [intervals |-> cleared, cleanup |-> {}]
           ELSE [intervals |-> cleared \cup {setInterval(values, binary, now)},
                 cleanup |-> {now}]

\* A render after the hooks in `set` were given new values: when a
\* dependency is among them, the previous effect's cleanup runs and the
\* effect runs again with the state of this render.
tickEffect(set, ivs, cl, paused, values, binary, now) ==
  IF set \cap TickDeps = {}
  THEN [intervals |-> ivs, cleanup |-> cl]
  ELSE LET cleared == clearInterval(ivs, cl)
       IN  IF paused
           THEN [intervals |-> cleared, cleanup |-> {}]
           ELSE [intervals |-> cleared \cup {setInterval(values, binary, now)},
                 cleanup |-> {now}]

\* The first render's effects: the bootstrap effect fills data, the tick
\* effect arms the first timer.  The render that setData(initialData) causes
\* changes no dependency of the tick effect.
Mount(boots) ==
  /\ phase = "rendered"
  /\ \E rnd \in boots :
       data' = initialData(clock, rnd)
  /\ LET e == tickEffect(TickDeps, intervals, cleanup, isPaused,
                         currentValues, binaryStates, clock)
     IN  /\ intervals' = e.intervals
         /\ cleanup' = e.cleanup
  /\ phase' = "mounted"
  /\ lastResume' = clock
  /\ UNCHANGED <<binaryStates, currentValues, isPaused, language, clock, ticks,
                 lastPause, resumeTicks>>

\* The component is removed: the pending cleanup runs.
Unmount ==
  /\ phase = "mounted"
  /\ phase' = "unmounted"
  /\ intervals' = clearInterval(intervals, cleanup)
  /\ cleanup' = {}
  /\ UNCHANGED <<data, binaryStates, currentValues, isPaused, language,
                 clock, ticks, lastResume, lastPause, resumeTicks>>

\* One second passes.  A timer that is due fires before time moves on.
Advance(horizon) ==
  /\ phase # "rendered"
  /\ clock < horizon
  /\ \A iv \in intervals : iv.due > clock
  /\ clock' = clock + 1
  /\ UNCHANGED <<phase, data, binaryStates, currentValues, isPaused, language,
                 intervals, cleanup, ticks, lastResume, lastPause, resumeTicks>>

----------------------------------------------------------------------------
(* The interval callback. *)

shouldStartDefrost(binary, rnd) ==
  ~binary.defrostMode /\ rnd.defrost < StartThreshold

\* Mutant of shouldEndDefrost: a defrost ends at the next tick, no draw made.
shouldEndDefrost_Always(binary, rnd) == binary.defrostMode

\* Mutant of shouldEndDefrost: the end draw is made whatever the flag is.
shouldEndDefrost_Unguarded(binary, rnd) == rnd.defrost < EndThreshold

shouldEndDefrost(binary, rnd) ==
  binary.defrostMode /\ rnd.defrost < EndThreshold

\* Mutant of newBinaryStates: the compressor flag reads the defrost flag as
\* it was before the transition, as the fan does.
newBinaryStates_CompressorLags(binary, values, rnd) ==
  [binary EXCEPT
     !.defrostMode =
        IF shouldStartDefrost(binary, rnd) THEN TRUE
        ELSE IF shouldEndDefrost(binary, rnd) THEN FALSE
        ELSE binary.defrostMode,
     !.compressorRunning = ~binary.defrostMode,
     !.evaporatorFan = IF binary.defrostMode THEN FALSE ELSE TRUE,
     !.doorSwitch = rnd.door < DoorThreshold,
     !.alarmStatus =
        values.caseTemp > AlarmThreshold * Scale \/ binary.defrostMode]

\* Mutant of newBinaryStates: the fan flag reads the defrost flag after the
\* transition.
newBinaryStates_FanFollows(binary, values, rnd) ==
  [binary EXCEPT
     !.defrostMode =
        IF shouldStartDefrost(binary, rnd) THEN TRUE
        ELSE IF shouldEndDefrost(binary, rnd) THEN FALSE
        ELSE binary.defrostMode,
     !.compressorRunning =
        IF shouldStartDefrost(binary, rnd) THEN FALSE
        ELSE IF ~binary.defrostMode \/ shouldEndDefrost(binary, rnd)
             THEN TRUE ELSE FALSE,
     !.evaporatorFan = ~(IF shouldStartDefrost(binary, rnd) THEN TRUE
                         ELSE IF shouldEndDefrost(binary, rnd) THEN FALSE
                         ELSE binary.defrostMode),
     !.doorSwitch = rnd.door < DoorThreshold,
     !.alarmStatus = values.caseTemp > AlarmThreshold * Scale \/ binary.defrostMode]

\* Mutant of newBinaryStates: the alarm ignores the case temperature.
newBinaryStates_AlarmDefrostOnly(binary, values, rnd) ==
  [binary EXCEPT
     !.defrostMode =
        IF shouldStartDefrost(binary, rnd) THEN TRUE
        ELSE IF shouldEndDefrost(binary, rnd) THEN FALSE
        ELSE binary.defrostMode,
     !.compressorRunning =
        IF shouldStartDefrost(binary, rnd) THEN FALSE
        ELSE IF ~binary.defrostMode \/ shouldEndDefrost(binary, rnd)
             THEN TRUE ELSE FALSE,
     !.evaporatorFan = IF binary.defrostMode THEN FALSE ELSE TRUE,
     !.doorSwitch = rnd.door < DoorThreshold,
     !.alarmStatus = binary.defrostMode]

\* Mutant of newBinaryStates: the case light follows the door switch.
newBinaryStates_LightFollowsDoor(binary, values, rnd) ==
  [binary EXCEPT
     !.defrostMode =
        IF shouldStartDefrost(binary, rnd) THEN TRUE
        ELSE IF shouldEndDefrost(binary, rnd) THEN FALSE
        ELSE binary.defrostMode,
     !.compressorRunning =
        IF shouldStartDefrost(binary, rnd) THEN FALSE
        ELSE IF ~binary.defrostMode \/ shouldEndDefrost(binary, rnd)
             THEN TRUE ELSE FALSE,
     !.evaporatorFan = IF binary.defrostMode THEN FALSE ELSE TRUE,
     !.caseLight = ~(rnd.door < DoorThreshold),
     !.doorSwitch = rnd.door < DoorThreshold,
     !.alarmStatus = values.caseTemp > AlarmThreshold * Scale \/ binary.defrostMode]

\* newBinaryStates, from the binaryStates and currentValues of the closure.
newBinaryStates(binary, values, rnd) ==
  [binary EXCEPT
     !.defrostMode =
        IF shouldStartDefrost(binary, rnd) THEN TRUE
        ELSE IF shouldEndDefrost(binary, rnd) THEN FALSE
        ELSE binary.defrostMode,
     !.compressorRunning =
        IF shouldStartDefrost(binary, rnd) THEN FALSE
        ELSE IF ~binary.defrostMode \/ shouldEndDefrost(binary, rnd)
             THEN TRUE ELSE FALSE,
     !.evaporatorFan = IF binary.defrostMode THEN FALSE ELSE TRUE,
     !.doorSwitch = rnd.door < DoorThreshold,
     !.alarmStatus =
        values.caseTemp > AlarmThreshold * Scale \/ binary.defrostMode]

\* newValues, from the currentValues of the closure and the new defrost flag.
newValues(values, inDefrost, rnd) ==
  [c \in Channels |->
     generateValue(SIMULATION_CONFIG[c], values[c], inDefrost,
                   rnd.first[c], rnd.second[c])]

newDataPoint(now, nv) == [timestamp |-> now] @@ nv

\* Mutant of appendPoint: slice(0, 60), which keeps the oldest 60.
appendPoint_KeepsOldest(prevData, point) ==
  LET updated == Append(prevData, point)
  IN  IF Len(updated) <= HistoryCap
      THEN updated
      ELSE SubSeq(updated, 1, HistoryCap)

\* Mutant of appendPoint: slice(-59), which evicts one sample too many.
appendPoint_DropsTwo(prevData, point) ==
  LET updated == Append(prevData, point)
  IN  IF Len(updated) <= HistoryCap - 1
      THEN updated
      ELSE SubSeq(updated, Len(updated) - HistoryCap + 2, Len(updated))

\* The updater passed to setData: append, keep the last 60.
appendPoint(prevData, point) ==
  LET updated == Append(prevData, point)
  IN  IF Len(updated) <= HistoryCap
      THEN updated
      ELSE SubSeq(updated, Len(updated) - HistoryCap + 1, Len(updated))

\* Mutant of callback: setCurrentValues is left out.
callback_StaleValues(iv, prevData, now, rnd) ==
  LET nb == newBinaryStates(iv.binary, iv.values, rnd)
      nv == newValues(iv.values, nb.defrostMode, rnd)
  IN  [data |-> appendPoint(prevData, newDataPoint(now, nv)),
       currentValues |-> iv.values,
       binaryStates |-> nb]

\* Mutant of callback: the values are generated in the mode of the defrost
\* flag of the closure, not of newBinaryStates.
callback_OldMode(iv, prevData, now, rnd) ==
  LET nb == newBinaryStates(iv.binary, iv.values, rnd)
      nv == newValues(iv.values, iv.binary.defrostMode, rnd)
  IN  [data |-> appendPoint(prevData, newDataPoint(now, nv)),
       currentValues |-> nv,
       binaryStates |-> nb]

\* What the callback hands to setData, setCurrentValues and setBinaryStates.
\* React applies the three in one render.
callback(iv, prevData, now, rnd) ==
  LET nb == newBinaryStates(iv.binary, iv.values, rnd)
      nv == newValues(iv.values, nb.defrostMode, rnd)
  IN  [data |-> appendPoint(prevData, newDataPoint(now, nv)),
       currentValues |-> nv,
       binaryStates |-> nb]

\* A due timer fires: the callback runs, the timer stays armed for the next
\* period, and the render that follows runs the tick effect again.
Tick(srcs) ==
  \E iv \in intervals :
    /\ iv.due <= clock
    /\ \E rnd \in srcs :
         LET r == callback(iv, data, clock, rnd)
             rearmed == (intervals \ {iv}) \cup {[iv EXCEPT !.due = @ + Period]}
             e == tickEffect({"data", "currentValues", "binaryStates"},
                             rearmed, cleanup, isPaused,
                             r.currentValues, r.binaryStates, clock)
         IN  /\ data' = r.data
             /\ currentValues' = r.currentValues
             /\ binaryStates' = r.binaryStates
             /\ intervals' = e.intervals
             /\ cleanup' = e.cleanup
    /\ ticks' = ticks + 1
    /\ UNCHANGED <<phase, isPaused, language, clock, lastResume, lastPause, resumeTicks>>

----------------------------------------------------------------------------
(* The controls. *)

\* Mutant of setIsPaused: every call renders and runs the tick effect again,
\* whether or not the value changed.
setIsPaused_AlwaysRenders(b, paused, ivs, cl, values, binary, now) ==
  LET e == tickEffect({"isPaused"}, ivs, cl, b, values, binary, now)
  IN  [isPaused |-> b, intervals |-> e.intervals, cleanup |-> e.cleanup]

\* setIsPaused(b) and the render it causes.  Setting the value the hook
\* already holds causes no render and runs no effect.
setIsPaused(b, paused, ivs, cl, values, binary, now) ==
  IF b = paused
  THEN [isPaused |-> paused, intervals |-> ivs, cleanup |-> cl]
  ELSE LET e == tickEffect({"isPaused"}, ivs, cl, b, values, binary, now)
       IN  [isPaused |-> b, intervals |-> e.intervals, cleanup |-> e.cleanup]

\* The pause switch: onCheckedChange={setIsPaused}.
SetPaused(b, window) ==
  /\ phase = "mounted"
  /\ clock < window
  /\ LET r == setIsPaused(b, isPaused, intervals, cleanup,
                          currentValues, binaryStates, clock)
     IN  /\ isPaused' = r.isPaused
         /\ intervals' = r.intervals
         /\ cleanup' = r.cleanup
  /\ lastResume' = IF b # isPaused /\ ~b THEN clock ELSE lastResume
  /\ lastPause' = IF b # isPaused /\ b THEN clock ELSE lastPause
  /\ resumeTicks' = IF b # isPaused /\ ~b THEN ticks ELSE resumeTicks
  /\ UNCHANGED <<phase, data, binaryStates, currentValues, language, clock,
                 ticks>>

\* The language buttons: onClick={() => setLanguage('en' | 'es')}.
SetLanguage(l) ==
  /\ phase = "mounted"
  /\ IF l = language
     THEN UNCHANGED vars
     ELSE LET e == tickEffect({"language"}, intervals, cleanup, isPaused,
                              currentValues, binaryStates, clock)
          IN  /\ language' = l
              /\ intervals' = e.intervals
              /\ cleanup' = e.cleanup
              /\ UNCHANGED <<phase, data, binaryStates, currentValues,
                             isPaused, clock, ticks, lastResume, lastPause, resumeTicks>>

----------------------------------------------------------------------------
(* Specifications. *)

\* The component with its controls, over a short time.
Next ==
  \/ Mount(BootSources)
  \/ Advance(MaxTime)
  \/ Tick(TickSources)
  \/ \E b \in BOOLEAN : SetPaused(b, MaxTime + 1)
  \/ \E l \in {"en", "es"} : SetLanguage(l)
  \/ Unmount

Spec == Init /\ [][Next]_vars

\* The simulator left running, no control touched.
NextRun ==
  \/ Mount(RunBootSources)
  \/ Advance(RunTime)
  \/ Tick(RunSources)

SpecRun == Init /\ [][NextRun]_vars

\* A long run with one random source; the pause switch is used early.
NextLong ==
  \/ Mount(LongBootSources)
  \/ Advance(LongTime)
  \/ Tick(LongSources)
  \/ \E b \in BOOLEAN : SetPaused(b, LongWindow)

SpecLong == Init /\ [][NextLong]_vars

\* The simulator with its pause switch, under fairness: time passes and a
\* due timer fires.
NextLive ==
  \/ Mount(LiveBootSources)
  \/ Advance(LiveTime)
  \/ Tick(LiveSources)
  \/ \E b \in BOOLEAN : SetPaused(b, LiveTime + 1)

SpecLive ==
  /\ Init
  /\ [][NextLive]_vars
  /\ WF_vars(Mount(LiveBootSources))
  /\ WF_vars(Advance(LiveTime))
  /\ WF_vars(Tick(LiveSources))

----------------------------------------------------------------------------
(* Properties. *)

Mounted == phase # "rendered"

\* The six channel values of a data point.
SampleValues(point) == [c \in Channels |-> point[c]]

Last(seq) == seq[Len(seq)]

InBounds(c, v) ==
  /\ SIMULATION_CONFIG[c].min * Scale <= v
  /\ v <= SIMULATION_CONFIG[c].max * Scale

\* The number of data points appended since the latest mount or resume.
SamplesSinceResume == ticks - resumeTicks

\* The timestamp of the oldest bootstrap sample (the component mounts at 0).
FirstBootstrapStamp == 0 - BootstrapCount * BootstrapStep

\* C1: every channel value of every sample in the history lies within the
\* channel's configured [min, max].
C1_SamplesInBounds ==
  \A i \in 1..Len(data) : \A c \in Channels : InBounds(c, data[i][c])

\* C2: the history never holds more than 60 samples, and once 61 ticks
\* have run the first bootstrap sample is no longer in it.
C2_HistoryCapped ==
  /\ Len(data) <= 60
  /\ ticks >= 61 =>
       \A i \in 1..Len(data) : data[i].timestamp # FirstBootstrapStamp

\* C2 witness: 61 ticks have run, one of them after a pause, and the history
\* is full.
C2_Witness ==
  /\ ticks = 61
  /\ Len(data) = 60
  /\ lastResume > 0

\* C3: while paused, no step runs a tick or changes the history, the current
\* values or the equipment state.
C3_FrozenWhilePaused ==
  [][isPaused =>
       /\ ticks' = ticks
       /\ data' = data
       /\ currentValues' = currentValues
       /\ binaryStates' = binaryStates]_vars

\* C3 witness: a pause that has lasted longer than a period, after a tick.
C3_Witness ==
  /\ isPaused
  /\ ticks = 1
  /\ clock - lastPause > Period
  /\ lastPause >= lastResume

\* C4: at most one sample is appended per full period elapsed since the
\* latest resume (none at the moment of resume), whatever the pause lasted.
C4_NoCatchUp ==
  Mounted => SamplesSinceResume * Period <= clock - lastResume

\* C4 witness: a resume after a pause longer than a period, and one tick
\* since, a full period after the resume.
C4_Witness ==
  /\ ~isPaused
  /\ lastResume - lastPause > Period
  /\ SamplesSinceResume = 1
  /\ clock = lastResume + Period

\* C5: in every published equipment state the compressor flag is the
\* negation of the defrost flag.
C5_CompressorNotDefrost ==
  binaryStates.compressorRunning = ~binaryStates.defrostMode

\* C5 witness: both ticks seen with defrost on before and after (started by
\* the first tick, not ended by the second).
C5_Witness ==
  /\ ticks = 2
  /\ binaryStates.defrostMode
  /\ ~binaryStates.compressorRunning

\* C6: in every published equipment state with defrost active, the
\* compressor and the evaporator fan are off.
C6_DefrostStopsCompressorAndFan ==
  binaryStates.defrostMode =>
    /\ ~binaryStates.compressorRunning
    /\ ~binaryStates.evaporatorFan

\* C7: in every snapshot a tick published, a case temperature above 38 comes
\* with the alarm flag set.
C7_AlarmWhenHot ==
  (ticks >= 1 /\ currentValues.caseTemp > AlarmThreshold * Scale)
    => binaryStates.alarmStatus

\* C8: from the bootstrap on, the current values are the channel values of
\* the last sample of the history.
C8_CurrentIsLatestSample ==
  Mounted => currentValues = SampleValues(Last(data))

\* C9: a step that changes the history, the current values or the equipment
\* state changes all three as one tick: the new equipment state and values
\* follow from the previous ones, and the sample appended holds these values.
C9_AtomicPublication ==
  [][(/\ phase = "mounted"
      /\ \/ data' # data
         \/ currentValues' # currentValues
         \/ binaryStates' # binaryStates)
       => \E rnd \in TickSources :
            LET nb == newBinaryStates(binaryStates, currentValues, rnd)
                nv == newValues(currentValues, nb.defrostMode, rnd)
            IN  /\ binaryStates' = nb
                /\ currentValues' = nv
                /\ data' = appendPoint(data, newDataPoint(clock, nv))]_vars

\* C9 witness: two ticks have published, the second with defrost active.
C9_Witness ==
  /\ ticks = 2
  /\ binaryStates.defrostMode
  /\ currentValues = SampleValues(Last(data))
  /\ Last(data).timestamp = clock

\* C10: at most one interval timer is armed, and only while the component is
\* mounted and not paused.
C10_OneTimerWhileRunning ==
  /\ Cardinality(intervals) <= 1
  /\ intervals # {} => (phase = "mounted" /\ ~isPaused)

\* C10 witness: unmounted after a tick, more than a period ago, and no
\* timer left.
C10_Witness ==
  /\ phase = "unmounted"
  /\ ticks = 1
  /\ intervals = {}
  /\ clock > Last(data).timestamp + Period

\* The isPaused hook, the armed timers and the pending cleanup, as setIsPaused
\* returns them.
PauseState == [isPaused |-> isPaused, intervals |-> intervals, cleanup |-> cleanup]

IsBootstrap(point) == point.timestamp < 0

\* C12: the bootstrap makes exactly 60 samples, consecutive ones exactly 5 s
\* apart in increasing order, the last one stamped with the start instant
\* (the clock at mount, which is 0).
C12_BootstrapTimestamps ==
  (Mounted /\ ticks = 0) =>
    /\ Len(data) = 60
    /\ \A i \in 1..(Len(data) - 1) :
         data[i + 1].timestamp = data[i].timestamp + 5
    /\ Last(data).timestamp = 0

\* C13: every channel value of every bootstrap sample lies within
\* [baseline - variance, baseline + variance] and within [min, max].
C13_BootstrapValuesNearBaseline ==
  \A i \in 1..Len(data) :
    IsBootstrap(data[i]) =>
      \A c \in Channels :
        LET cfg == SIMULATION_CONFIG[c]
        IN  /\ (cfg.baseline - cfg.variance) * Scale <= data[i][c]
            /\ data[i][c] <= (cfg.baseline + cfg.variance) * Scale
            /\ InBounds(c, data[i][c])

\* C13 witness: all 60 bootstrap samples are there, the oldest at the low
\* end of its jitter (case temperature 34).
C13_Witness ==
  /\ Mounted
  /\ Cardinality({i \in 1..Len(data) : IsBootstrap(data[i])}) = 60
  /\ data[1].caseTemp = 34 * Scale

\* How the defrost flag moves for the draws rnd. from the flags `binary`.
DefrostRule(binary, rnd) ==
  LET start == shouldStartDefrost(binary, rnd)
      end == shouldEndDefrost(binary, rnd)
      after == newBinaryStates(binary, currentValues, rnd).defrostMode
  IN  /\ ~(start /\ end)
      /\ start => ~binary.defrostMode
      /\ end => binary.defrostMode
      /\ after = (IF start THEN TRUE ELSE IF end THEN FALSE
                  ELSE binary.defrostMode)

\* C14: the defrost flag changes only in a tick and only by the rule: start
\* is chosen only when it was false, end only when it was true, never both,
\* and the flag becomes true on start, false on end and else stays.
C14_DefrostRule ==
  /\ [](\A rnd \in TickSources : DefrostRule(binaryStates, rnd))
  /\ [][/\ ticks' = ticks =>
             binaryStates'.defrostMode = binaryStates.defrostMode
        /\ ticks' = ticks + 1 =>
             \E rnd \in TickSources :
               binaryStates'.defrostMode =
                 newBinaryStates(binaryStates, currentValues, rnd).defrostMode
       ]_vars

\* C14 witness: defrost was started by the first tick and ended by the
\* second (the second saw it on: alarm set, fan off).
C14_Witness ==
  /\ ticks = 2
  /\ ~binaryStates.defrostMode
  /\ binaryStates.alarmStatus
  /\ ~binaryStates.evaporatorFan

\* C15: the fan flag a tick publishes is the negation of the defrost flag as
\* it was before the tick.
C15_FanReadsOldDefrost ==
  [][ticks' = ticks + 1 =>
       binaryStates'.evaporatorFan = ~binaryStates.defrostMode]_vars

\* C15 witness: the tick that started defrost published the fan on.
C15_Witness ==
  /\ ticks = 1
  /\ binaryStates.defrostMode
  /\ binaryStates.evaporatorFan

\* C16: the alarm flag a tick publishes is true exactly when the case
\* temperature published before the tick exceeds 38 or the defrost flag
\* before the tick was true.
C16_AlarmReadsOldState ==
  [][ticks' = ticks + 1 =>
       binaryStates'.alarmStatus =
         (currentValues.caseTemp > 38 * Scale \/ binaryStates.defrostMode)]_vars

\* C16 witness: a tick outside defrost (fan on, defrost off after it)
\* published the alarm on for the previous temperature alone, with a new
\* case temperature that is not above 38.
C16_Witness ==
  /\ ticks >= 1
  /\ binaryStates.alarmStatus
  /\ binaryStates.evaporatorFan
  /\ ~binaryStates.defrostMode
  /\ currentValues.caseTemp <= 38 * Scale

\* C17: a tick generates all six values in the mode of the defrost flag it
\* publishes, from the values published before it, and when that flag is
\* false the sample it appends is within [min, max] on every channel.
C17_ValuesInNewMode ==
  [][ticks' = ticks + 1 =>
       /\ \E rnd \in RunSources :
            currentValues' =
              newValues(currentValues, binaryStates'.defrostMode, rnd)
       /\ SampleValues(Last(data')) = currentValues'
       /\ ~binaryStates'.defrostMode =>
            \A c \in Channels : InBounds(c, Last(data')[c])]_vars

\* C17 witness: the tick that ended a defrost (it saw the flag on: fan off)
\* found a channel below its minimum and appended a sample within bounds.
C17_Witness ==
  /\ ticks >= 2
  /\ ~binaryStates.defrostMode
  /\ ~binaryStates.evaporatorFan
  /\ \E c \in Channels : ~InBounds(c, data[Len(data) - 1][c])
  /\ \A c \in Channels : InBounds(c, Last(data)[c])

\* C18: a value generated in defrost mode is never lower than the channel's
\* previous value.
C18_DefrostNeverFalls ==
  [][(ticks' = ticks + 1 /\ binaryStates'.defrostMode) =>
       \A c \in Channels : currentValues'[c] >= currentValues[c]]_vars

\* The multiplier of channel c, in tenths: 1.1 for the discharge temperature,
\* 1.5 for the others.
ClaimedMultiplier(c) == IF c = "dischargeTemp" THEN 11 ELSE 15

\* next is min(max, previous + d) for some d, in thousandths, with
\* -0.3 * variance * m <= d < 0.7 * variance * m.
DefrostStep(c, previous, next) ==
  LET cfg == SIMULATION_CONFIG[c]
      ceiling == cfg.max * Scale
      lo == 0 - 30 * cfg.variance * ClaimedMultiplier(c)
      hi == 70 * cfg.variance * ClaimedMultiplier(c)
  IN  \/ next < ceiling /\ lo <= next - previous /\ next - previous < hi
      \/ next = ceiling /\ previous + hi - 1 >= ceiling

\* C19: a defrost tick publishes min(max, previous + d) with d in
\* [-0.3 * variance * m, 0.7 * variance * m), m = 1.5 where the baseline is
\* below 50 and 1.1 elsewhere (the discharge temperature alone), and no
\* stored value exceeds its channel's max in any mode.
C19_DefrostFormula ==
  /\ [](/\ \A c \in Channels :
             (SIMULATION_CONFIG[c].baseline < 50) = (c # "dischargeTemp")
        /\ \A i \in 1..Len(data) : \A c \in Channels :
             data[i][c] <= SIMULATION_CONFIG[c].max * Scale)
  /\ [][(ticks' = ticks + 1 /\ binaryStates'.defrostMode) =>
          \A c \in Channels :
            DefrostStep(c, currentValues[c], currentValues'[c])]_vars

\* C19 witness: a defrost tick stored a value below its channel's min.
C19_Witness ==
  /\ ticks >= 1
  /\ binaryStates.defrostMode
  /\ \E c \in Channels : Last(data)[c] < SIMULATION_CONFIG[c].min * Scale

\* The number of tick samples the history can show after `ticks` ticks.
TickSamples == Min2(ticks, 60)

\* C20: once bootstrapped, every tick appends one sample as the last element
\* and evicts the oldest, the others keep their order and the length stays
\* 60; after k <= 60 ticks the last k elements are the k tick samples in
\* tick order, after the remaining bootstrap samples.
C20_FifoPerTick ==
  /\ [](Mounted =>
          /\ Len(data) = 60
          /\ \A i \in 1..(60 - TickSamples) : IsBootstrap(data[i])
          /\ \A i \in (61 - TickSamples)..60 : ~IsBootstrap(data[i])
          /\ \A i \in (61 - TickSamples)..59 :
               data[i].timestamp < data[i + 1].timestamp)
  /\ [][ticks' = ticks + 1 =>
          /\ Len(data') = Len(data)
          /\ Last(data').timestamp = clock
          /\ SampleValues(Last(data')) = currentValues'
          /\ \A i \in 1..(Len(data) - 1) : data'[i] = data[i + 1]]_vars

\* C20 witness: after sixty ticks the history holds the sixty tick samples
\* and no bootstrap sample.
C20_Witness ==
  /\ ticks = 60
  /\ ~IsBootstrap(data[1])
  /\ Last(data).timestamp = clock

\* C21: ticks neither overlap nor reuse a stale snapshot.  Every armed timer
\* holds the flags and values published last, a tick computes its flags and
\* values from those, and the timer that fired is gone after the tick, so
\* no captured state serves two firings.
C21_TicksFromLatestState ==
  /\ [](\A iv \in intervals :
          iv.values = currentValues /\ iv.binary = binaryStates)
  /\ [][ticks' = ticks + 1 =>
          /\ Cardinality({iv \in intervals : iv.due <= clock}) = 1
          /\ \E rnd \in TickSources :
               /\ binaryStates' =
                    newBinaryStates(binaryStates, currentValues, rnd)
               /\ currentValues' =
                    newValues(currentValues, binaryStates'.defrostMode, rnd)
          /\ \A iv \in intervals : \A jv \in intervals' : jv.id # iv.id]_vars

\* C21 witness: a second tick, after a pause and a resume, with the next
\* timer armed on what that tick published.
C21_Witness ==
  /\ ticks = 2
  /\ lastResume > 0
  /\ currentValues # initialCurrentValues
  /\ \E iv \in intervals : iv.id = clock /\ iv.values = SampleValues(Last(data))

\* The ticks that fit in SpecLive's time.
LiveTicks == LiveTime \div Period

\* C22: while mounted and not paused, ticks keep occurring.  Every tick
\* leaves a timer armed for one period later, and under fairness of the
\* timer, from any running state (after a mount, a tick or a resume) with a
\* period of time left, a further tick occurs unless the simulator is
\* paused first.
C22_TicksKeepOccurring ==
  /\ [][ticks' = ticks + 1 =>
          \E iv \in intervals' : iv.due = clock + Period]_vars
  /\ \A n \in 0..LiveTicks :
       (/\ phase = "mounted"
        /\ ~isPaused
        /\ clock <= LiveTime - Period
        /\ ticks = n)
         ~> (ticks > n \/ isPaused)

\* C22 witness: a tick occurred after a resume that followed a tick.
C22_Witness ==
  /\ ticks = 2
  /\ ~isPaused
  /\ lastPause > data[Len(data) - 1].timestamp
  /\ lastResume > lastPause
  /\ Last(data).timestamp = lastResume + Period

\* A timer is due: the next step of the simulator is a tick.
TickDue == \E iv \in intervals : iv.due <= clock

\* C23: defrost has no guaranteed duration or period.  Whenever a tick is
\* due, whatever the flag is and however long it has been so, the tick can
\* leave the defrost flag as it is and the tick can change it; so for every
\* k there are runs that keep it true, and runs that keep it false, for k
\* ticks, and nothing but the draws ends a defrost.
C23_DefrostMayStayOrChange ==
  TickDue =>
    \A stays \in BOOLEAN :
      \E rnd \in RunSources :
        ENABLED (/\ Tick({rnd})
                 /\ stays = (binaryStates'.defrostMode = binaryStates.defrostMode))

\* C23 witness: the defrost flag has been true since the first tick, for
\* five ticks: only a defrost tick lowers the case temperature by 0.9.
C23_Witness ==
  /\ ticks = 5
  /\ binaryStates.defrostMode
  /\ \A i \in 1..5 :
       data[Len(data) - 5 + i].caseTemp = 35 * Scale - i * 900

\* C24: the case-light flag is true in the initial state and in every state
\* a tick publishes, and no pause, resume or language change clears it; the
\* flags a timer's closure holds have it true as well.
C24_CaseLightOn ==
  /\ binaryStates.caseLight
  /\ \A iv \in intervals : iv.binary.caseLight

\* C24 witness: after a tick with the door open, a pause, a resume and a
\* switch to Spanish, the light is on.
C24_Witness ==
  /\ ticks >= 1
  /\ binaryStates.doorSwitch
  /\ lastResume > lastPause
  /\ lastPause > 0
  /\ language = "es"
  /\ binaryStates.caseLight

\* C25: a change of the display language changes neither the flags, the
\* current values, the history nor the pause flag, and leaves the armed
\* timer, with its due time, and the pending cleanup as they are.
C25_LanguageLeavesSimulator ==
  [][language' # language =>
       UNCHANGED <<data, binaryStates, currentValues, isPaused, intervals,
                   cleanup, clock, ticks>>]_vars

\* C25 witness: Spanish was chosen, the simulator runs, and the timer armed
\* by the last tick is due within the period that tick started.
C25_Witness ==
  /\ phase = "mounted"
  /\ language = "es"
  /\ ticks = 1
  /\ ~isPaused
  /\ lastPause = 0
  /\ \E iv \in intervals :
       /\ iv.id = Last(data).timestamp
       /\ iv.due = iv.id + Period
       /\ iv.due - clock \in 1..(Period - 1)

\* The latest of the mount, the previous tick and the latest resume.
LastRestart ==
  IF ticks >= 1 THEN Max2(lastResume, Last(data).timestamp) ELSE lastResume

\* C26: a tick fires no sooner than a full period after the latest of
\* mount, previous tick and resume.  The armed timer is always due one
\* period after that instant: a resume starts the period afresh, and the
\* time that had run toward the next tick before the pause is lost.
C26_FullPeriodBeforeTick ==
  /\ [](\A iv \in intervals : iv.due = LastRestart + 5)
  /\ [][ticks' = ticks + 1 => clock >= LastRestart + 5]_vars

\* C26 witness: the simulator ran for four seconds, was paused, was resumed
\* two seconds later and has run for four more seconds; it is running and
\* no tick has occurred.
C26_Witness ==
  /\ ticks = 0
  /\ ~isPaused
  /\ lastPause = 4
  /\ lastResume = 6
  /\ clock = 10
  /\ \E iv \in intervals : iv.due = 11

\* Defrost is off, the alarm is off and the case temperature is at most 38.
Quiet ==
  /\ ~binaryStates.defrostMode
  /\ ~binaryStates.alarmStatus
  /\ currentValues.caseTemp <= 38 * Scale

\* C27: until a defrost starts, the case temperature stays at or below 38
\* and the alarm stays off: the initial state is quiet, and every step from
\* a quiet state leaves the alarm off and, unless it starts a defrost, leads
\* to a quiet state.  The alarm goes on only in a tick before which the
\* defrost flag was true.
C27_QuietUntilDefrost ==
  /\ [](ticks = 0 => Quiet)
  /\ [][/\ Quiet => (~binaryStates'.alarmStatus
                       /\ (binaryStates'.defrostMode \/ Quiet'))
        /\ (~binaryStates.alarmStatus /\ binaryStates'.alarmStatus) =>
             binaryStates.defrostMode
       ]_vars

\* C27 witness: five ticks in normal mode, each with the highest draws, from
\* the initial 35; the case temperature has passed 37 and the state is
\* quiet.
C27_Witness ==
  /\ ticks = 5
  /\ Quiet
  /\ currentValues.caseTemp > 37 * Scale
  /\ data[Len(data) - 4].caseTemp =
       generateValue(SIMULATION_CONFIG.caseTemp, 35 * Scale, FALSE, 999, 999)
  /\ \A i \in (Len(data) - 3)..Len(data) :
       data[i].caseTemp =
         generateValue(SIMULATION_CONFIG.caseTemp, data[i - 1].caseTemp,
                       FALSE, 999, 999)

====
